---- MODULE Spec2Model ----
(***************************************************************************)
(* Model of the `digest` command-line utility (src/src/main.rs).           *)
(*                                                                         *)
(* The program parses its command line, classifies every FILE argument     *)
(* with CheckedFile::new, and then hash_files walks the classified list:   *)
(* a not-hashable entry gets a line on standard error, a hashable one is   *)
(* opened, streamed through the selected hasher, hex-encoded and printed.  *)
(* The file system is the environment: it may change between any two       *)
(* steps of the program.                                                   *)
(*                                                                         *)
(* Text is modelled as a sequence of pieces, format!/println! as the       *)
(* concatenation of the pieces; a hex digest is a sequence of one-char     *)
(* strings.  The standard streams are assumed to accept every write.       *)
(***************************************************************************)
EXTENDS Integers, Sequences, FiniteSets, TLC

VARIABLES
    args,           \* Cli: what the command line holds
    fs,             \* the file system: path -> entry
    pc,             \* position of the single thread of the program
    checked_files,  \* Vec<CheckedFile> built by main
    idx,            \* 1-based position of hash_files' for loop
    file,           \* `file` of calculate_hash: <<>> or <<kind of the open object>>
    open_files,     \* argument indices whose File is open (not yet dropped)
    opened,         \* argument indices for which File::open was called
    out,            \* lines emitted so far, in emission order, both streams
    exit_status,    \* -1 while running, else the process exit status
    state,          \* per-argument lifecycle of spec section 4.4
    touched,        \* paths the environment changed since the program started
    vec_hash,       \* input of the hex encoder under SpecHex
    hex             \* its output under SpecHex

vars == <<args, fs, pc, checked_files, idx, file, open_files, opened, out,
          exit_status, state, touched, vec_hash, hex>>

(***************************************************************************)
(* Bounds of the model.                                                    *)
(***************************************************************************)
MaxArgs == 2

MaxHexLen == 3

DigestBytes == 2

Paths == {"a", "b"}

\* Bytes the hex encoder is tried on in sequences; single bytes are tried in full.
ByteSample == {0, 8, 10, 46, 68, 201, 255}

Byte == 0..255

(***************************************************************************)
(* enum DigestType and the command line.                                   *)
(***************************************************************************)
DigestType == {"SHA256", "SHA512"}

\* What `--digest` holds on the command line: absent, not a supported name,
\* or one of the two variants.
Selectors == {"absent", "invalid"} \cup DigestType

\* A --help / --version flag the argument parser reaches before it meets an error.
InfoFlags == {"none", "help", "version"}

(***************************************************************************)
(* The file system.                                                        *)
(***************************************************************************)
BaseKinds == {"file", "file_noperm", "file_ioerr", "dir", "special", "missing"}

LinkKinds == {"link_file", "link_dir", "link_dangling"}

Entries == BaseKinds \cup LinkKinds

\* stat(2) semantics: metadata follows symbolic links.
Resolve(e) ==
    CASE e = "link_file"     -> "file"
      [] e = "link_dir"      -> "dir"
      [] e = "link_dangling" -> "missing"
      [] OTHER               -> e

\* Path::is_file: fs::metadata(path).map(|m| m.is_file()).unwrap_or(false)
is_file(e) == Resolve(e) \in {"file", "file_noperm", "file_ioerr"}

\* Path::is_dir
is_dir(e) == Resolve(e) = "dir"

(***************************************************************************)
(* Hex Encoder: to_hex_lowercase (main.rs 119-121).                        *)
(***************************************************************************)
HexDigits == <<"0", "1", "2", "3", "4", "5", "6", "7",
               "8", "9", "a", "b", "c", "d", "e", "f">>

\* fmt::LowerHex for u8: the base-16 digits of b, most significant first,
\* without leading zeros (0 is "0").
LowerHex(b) ==
    IF b < 16 THEN <<HexDigits[b + 1]>>
    ELSE <<HexDigits[(b \div 16) + 1], HexDigits[(b % 16) + 1]>>

\* The `02` of "{:02x}": pad on the left with '0' up to the width w.
RECURSIVE PadZero(_, _)
PadZero(s, w) == IF Len(s) >= w THEN s ELSE PadZero(<<"0">> \o s, w)

\* A plausible slip: "{:x}", no zero padding.
FormatByteNoPad(b) == LowerHex(b)

\* format!("{:02x}", b)
FormatByte(b) == PadZero(LowerHex(b), 2)

\* vec_hash.iter().map(|b| format!("{:02x}", b)).collect::<String>()
RECURSIVE to_hex_lowercase(_)
to_hex_lowercase(v) ==
    IF v = <<>> THEN <<>>
    ELSE FormatByte(Head(v)) \o to_hex_lowercase(Tail(v))

(***************************************************************************)
(* Digest Engine primitives (the sha2 hashers and std::fs / std::io).      *)
(***************************************************************************)
\* <D as Digest>::output_size() of the hasher perform_hash selects, scaled
\* down: DigestBytes stands for the 32 bytes of SHA-256, SHA-512 has twice that.
OutputSize(digest) == IF digest = "SHA256" THEN DigestBytes ELSE 2 * DigestBytes

\* The bytes the environment stores under a path (an abstract content id).
Content(path) == IF path = "a" THEN 97 ELSE 98

\* hasher.finalize().to_vec(): a fixed function of algorithm and content,
\* OutputSize(digest) bytes long.
Finalized(digest, content) ==
    [i \in 1..OutputSize(digest) |-> (content * 31 + i * 7 + OutputSize(digest)) % 256]

\* std::fs::File::open(path): Ok(kind of the opened object) or Err(message).
\* Opening a directory read-only succeeds; reading it fails.
FileOpen(e) ==
    CASE Resolve(e) = "missing"     -> [ok |-> FALSE, val |-> "No such file or directory"]
      [] Resolve(e) = "file_noperm" -> [ok |-> FALSE, val |-> "Permission denied"]
      [] OTHER                      -> [ok |-> TRUE,  val |-> Resolve(e)]

\* io::copy(&mut file, &mut hasher): the results a read of the open object
\* can have.  The object is the one opened, whatever the path names by now.
CopyResults(kind) ==
    CASE kind = "file"       -> {[ok |-> TRUE,  val |-> ""]}
      [] kind = "file_ioerr" -> {[ok |-> FALSE, val |-> "Input/output error"]}
      [] kind = "dir"        -> {[ok |-> FALSE, val |-> "Is a directory"]}
      [] OTHER               -> {[ok |-> TRUE,  val |-> ""],
                                 [ok |-> FALSE, val |-> "Input/output error"]}

(***************************************************************************)
(* Path Classifier: CheckedFile::new (main.rs 33-50).                      *)
(***************************************************************************)
Ok == [ok |-> TRUE, err |-> <<>>]

Err(msg) == [ok |-> FALSE, err |-> msg]

IsADirectory == ": is a directory, not a file"

NotDirOrFile == ": is not a directory or a file"

\* A plausible slip: symlink_metadata instead of metadata (links not followed).
CheckedFile_new_nofollow(path) ==
    IF fs[path] \in {"file", "file_noperm", "file_ioerr"}
    THEN [file_path |-> path, hashable |-> Ok]
    ELSE IF fs[path] = "dir"
    THEN [file_path |-> path, hashable |-> Err(<<path, IsADirectory>>)]
    ELSE [file_path |-> path, hashable |-> Err(<<path, NotDirOrFile>>)]

CheckedFile_new(path) ==
    IF is_file(fs[path])
    THEN [file_path |-> path, hashable |-> Ok]
    ELSE IF is_dir(fs[path])
    THEN [file_path |-> path, hashable |-> Err(<<path, IsADirectory>>)]
    ELSE [file_path |-> path, hashable |-> Err(<<path, NotDirOrFile>>)]

(***************************************************************************)
(* Output lines.                                                           *)
(***************************************************************************)
\* println!("{}: {}", hash_value, path_buf)
DigestLine(hash_value, path) == hash_value \o <<": ", path>>

\* println!("{}: error during hashing: {}", path_buf, e)
HashErrorLine(path, e) == <<path, ": error during hashing: ", e>>

\* eprintln!("{}: unable to hash this file", err)
UnableLine(err) == err \o <<": unable to hash this file">>

\* One emitted line: the stream, the text, and the argument it reports on
\* (0 for the argument parser's own output).
Line(stream, kind, text, k) ==
    [stream |-> stream, kind |-> kind, text |-> text, arg |-> k]

NArgs == Len(args.filename)

SeqsUpTo(S, n) == UNION {[1..m -> S] : m \in 0..n}

Range(s) == {s[i] : i \in DOMAIN s}

Terminal == {"skipped", "hashed", "hash-failed"}

(***************************************************************************)
(* Initial states: any command line of at most MaxArgs FILE arguments over *)
(* any file system.  Paths not named on the command line do not exist.     *)
(***************************************************************************)
Init ==
    /\ args \in [digest : Selectors, info : InfoFlags,
                 filename : SeqsUpTo(Paths, MaxArgs)]
    /\ fs \in [Paths -> Entries]
    /\ \A p \in Paths \ Range(args.filename) : fs[p] = "missing"
    /\ pc = "parse"
    /\ checked_files = <<>>
    /\ idx = 0
    /\ file = <<>>
    /\ open_files = {}
    /\ opened = {}
    /\ out = <<>>
    /\ exit_status = -1
    /\ state = [k \in 1..Len(args.filename) |-> "unchecked"]
    /\ touched = {}
    /\ vec_hash = <<>>
    /\ hex = <<>>

(***************************************************************************)
(* main, line 65: Cli::parse().  A help or version request prints to       *)
(* standard output and exits 0; a missing or invalid --digest prints the   *)
(* usage error to standard error and exits 2; otherwise main goes on.      *)
(***************************************************************************)
\* A plausible slip: the selector is not required, so a missing or unknown
\* one does not stop the program.
CliParseLenient ==
    /\ pc = "parse"
    /\ IF args.info # "none"
       THEN /\ out' = Append(out, Line("stdout", args.info, <<args.info>>, 0))
            /\ exit_status' = 0
            /\ pc' = "exit"
       ELSE /\ pc' = "collect"
            /\ UNCHANGED <<out, exit_status>>
    /\ UNCHANGED <<args, fs, checked_files, idx, file, open_files, opened,
                   state, touched, vec_hash, hex>>

CliParse ==
    /\ pc = "parse"
    /\ IF args.info # "none"
       THEN /\ out' = Append(out, Line("stdout", args.info, <<args.info>>, 0))
            /\ exit_status' = 0
            /\ pc' = "exit"
       ELSE IF args.digest \notin DigestType
       THEN /\ out' = Append(out, Line("stderr", "usage", <<"error: ", args.digest>>, 0))
            /\ exit_status' = 2
            /\ pc' = "exit"
       ELSE /\ pc' = "collect"
            /\ UNCHANGED <<out, exit_status>>
    /\ UNCHANGED <<args, fs, checked_files, idx, file, open_files, opened,
                   state, touched, vec_hash, hex>>

(***************************************************************************)
(* main, lines 67-71: one step of args.filename.iter().map(CheckedFile::new)*)
(* .collect(): the next path is classified and pushed.                     *)
(***************************************************************************)
Classify ==
    /\ pc = "collect"
    /\ Len(checked_files) < NArgs
    /\ LET k == Len(checked_files) + 1 IN
         /\ checked_files' = Append(checked_files, CheckedFile_new(args.filename[k]))
         /\ state' = [state EXCEPT ![k] = "classified"]
    /\ UNCHANGED <<args, fs, pc, idx, file, open_files, opened, out,
                   exit_status, touched, vec_hash, hex>>

\* A plausible slip: hash_files is entered with the list built so far.
CallHashFilesEarly ==
    /\ pc = "collect"
    /\ pc' = "hash_files"
    /\ idx' = 1
    /\ UNCHANGED <<args, fs, checked_files, file, open_files, opened, out,
                   exit_status, state, touched, vec_hash, hex>>

\* main, line 73: the collected Vec is complete; hash_files is called.
CallHashFiles ==
    /\ pc = "collect"
    /\ Len(checked_files) = NArgs
    /\ pc' = "hash_files"
    /\ idx' = 1
    /\ UNCHANGED <<args, fs, checked_files, file, open_files, opened, out,
                   exit_status, state, touched, vec_hash, hex>>

(***************************************************************************)
(* hash_files, lines 77-86.                                                *)
(***************************************************************************)
\* A plausible slip: the rejection is printed with println!.
ReportUnhashableStdout ==
    /\ pc = "hash_files"
    /\ idx <= Len(checked_files)
    /\ ~checked_files[idx].hashable.ok
    /\ out' = Append(out, Line("stdout", "rejected",
                               UnableLine(checked_files[idx].hashable.err), idx))
    /\ state' = [state EXCEPT ![idx] = "skipped"]
    /\ idx' = idx + 1
    /\ UNCHANGED <<args, fs, pc, checked_files, file, open_files, opened,
                   exit_status, touched, vec_hash, hex>>

\* A plausible slip: a not-hashable entry is skipped without a word.
ReportUnhashableSilent ==
    /\ pc = "hash_files"
    /\ idx <= Len(checked_files)
    /\ ~checked_files[idx].hashable.ok
    /\ state' = [state EXCEPT ![idx] = "skipped"]
    /\ idx' = idx + 1
    /\ UNCHANGED <<args, fs, pc, checked_files, file, open_files, opened, out,
                   exit_status, touched, vec_hash, hex>>

\* Err(err) => eprintln!("{}: unable to hash this file", err)
ReportUnhashable ==
    /\ pc = "hash_files"
    /\ idx <= Len(checked_files)
    /\ ~checked_files[idx].hashable.ok
    /\ out' = Append(out, Line("stderr", "rejected",
                               UnableLine(checked_files[idx].hashable.err), idx))
    /\ state' = [state EXCEPT ![idx] = "skipped"]
    /\ idx' = idx + 1
    /\ UNCHANGED <<args, fs, pc, checked_files, file, open_files, opened,
                   exit_status, touched, vec_hash, hex>>

(***************************************************************************)
(* Ok(()) => hash_file -> perform_hash -> calculate_hash, line 104:        *)
(* File::open succeeds and the file is held open.                          *)
(***************************************************************************)
OpenFile ==
    /\ pc = "hash_files"
    /\ idx <= Len(checked_files)
    /\ checked_files[idx].hashable.ok
    /\ LET r == FileOpen(fs[checked_files[idx].file_path]) IN
         /\ r.ok
         /\ file' = <<r.val>>
    /\ open_files' = open_files \cup {idx}
    /\ opened' = opened \cup {idx}
    /\ pc' = "copy"
    /\ UNCHANGED <<args, fs, checked_files, idx, out, exit_status, state,
                   touched, vec_hash, hex>>

\* A plausible slip: an open failure is fatal (unwrap / process::exit(1)).
OpenFailAbort ==
    /\ pc = "hash_files"
    /\ idx <= Len(checked_files)
    /\ checked_files[idx].hashable.ok
    /\ LET path == checked_files[idx].file_path
           r == FileOpen(fs[path])
       IN /\ ~r.ok
          /\ out' = Append(out, Line("stderr", "hash-error",
                                     HashErrorLine(path, r.val), idx))
    /\ opened' = opened \cup {idx}
    /\ state' = [state EXCEPT ![idx] = "hash-failed"]
    /\ exit_status' = 1
    /\ pc' = "exit"
    /\ UNCHANGED <<args, fs, checked_files, idx, file, open_files, touched,
                   vec_hash, hex>>

\* A plausible slip: the hashing error is printed with eprintln!.
OpenFailStderr ==
    /\ pc = "hash_files"
    /\ idx <= Len(checked_files)
    /\ checked_files[idx].hashable.ok
    /\ LET path == checked_files[idx].file_path
           r == FileOpen(fs[path])
       IN /\ ~r.ok
          /\ out' = Append(out, Line("stderr", "hash-error",
                                     HashErrorLine(path, r.val), idx))
    /\ opened' = opened \cup {idx}
    /\ state' = [state EXCEPT ![idx] = "hash-failed"]
    /\ idx' = idx + 1
    /\ UNCHANGED <<args, fs, pc, checked_files, file, open_files, exit_status,
                   touched, vec_hash, hex>>

\* Line 104, File::open fails: `?` returns the error to hash_file, which
\* prints it on standard output (line 92); the loop goes on.
OpenFail ==
    /\ pc = "hash_files"
    /\ idx <= Len(checked_files)
    /\ checked_files[idx].hashable.ok
    /\ LET path == checked_files[idx].file_path
           r == FileOpen(fs[path])
       IN /\ ~r.ok
          /\ out' = Append(out, Line("stdout", "hash-error",
                                     HashErrorLine(path, r.val), idx))
    /\ opened' = opened \cup {idx}
    /\ state' = [state EXCEPT ![idx] = "hash-failed"]
    /\ idx' = idx + 1
    /\ UNCHANGED <<args, fs, pc, checked_files, file, open_files, exit_status,
                   touched, vec_hash, hex>>

\* Line 106: io::copy streams the whole file into the hasher.
CopyOk ==
    /\ pc = "copy"
    /\ \E r \in CopyResults(file[1]) : r.ok
    /\ pc' = "finalize"
    /\ UNCHANGED <<args, fs, checked_files, idx, file, open_files, opened, out,
                   exit_status, state, touched, vec_hash, hex>>

\* A plausible slip: the File is leaked on the error path (mem::forget).
CopyFailLeak ==
    /\ pc = "copy"
    /\ \E r \in CopyResults(file[1]) :
         /\ ~r.ok
         /\ out' = Append(out, Line("stdout", "hash-error",
                                    HashErrorLine(checked_files[idx].file_path, r.val), idx))
    /\ file' = <<>>
    /\ state' = [state EXCEPT ![idx] = "hash-failed"]
    /\ idx' = idx + 1
    /\ pc' = "hash_files"
    /\ UNCHANGED <<args, fs, checked_files, open_files, opened, exit_status,
                   touched, vec_hash, hex>>

\* Line 106, a read fails: `?` returns, dropping (closing) `file`; hash_file
\* prints the error on standard output (line 92); the loop goes on.
CopyFail ==
    /\ pc = "copy"
    /\ \E r \in CopyResults(file[1]) :
         /\ ~r.ok
         /\ out' = Append(out, Line("stdout", "hash-error",
                                    HashErrorLine(checked_files[idx].file_path, r.val), idx))
    /\ file' = <<>>
    /\ open_files' = open_files \ {idx}
    /\ state' = [state EXCEPT ![idx] = "hash-failed"]
    /\ idx' = idx + 1
    /\ pc' = "hash_files"
    /\ UNCHANGED <<args, fs, checked_files, opened, exit_status, touched,
                   vec_hash, hex>>

\* Lines 107-108 and 91: the digest is finalised and hex-encoded,
\* calculate_hash returns (dropping `file`), hash_file prints the digest line.
FinalizeAndPrint ==
    /\ pc = "finalize"
    /\ LET path == checked_files[idx].file_path
           finalized_hash == Finalized(args.digest, Content(path))
       IN out' = Append(out, Line("stdout", "digest",
                                  DigestLine(to_hex_lowercase(finalized_hash), path), idx))
    /\ file' = <<>>
    /\ open_files' = open_files \ {idx}
    /\ state' = [state EXCEPT ![idx] = "hashed"]
    /\ idx' = idx + 1
    /\ pc' = "hash_files"
    /\ UNCHANGED <<args, fs, checked_files, opened, exit_status, touched,
                   vec_hash, hex>>

\* A plausible slip: a failure count decides the exit status.
ReturnFailing ==
    /\ pc = "hash_files"
    /\ idx > Len(checked_files)
    /\ exit_status' = IF \E k \in DOMAIN state : state[k] # "hashed" THEN 1 ELSE 0
    /\ pc' = "exit"
    /\ UNCHANGED <<args, fs, checked_files, idx, file, open_files, opened, out,
                   state, touched, vec_hash, hex>>

\* The for loop is exhausted: hash_files and main return, the process exits 0.
Return ==
    /\ pc = "hash_files"
    /\ idx > Len(checked_files)
    /\ exit_status' = 0
    /\ pc' = "exit"
    /\ UNCHANGED <<args, fs, checked_files, idx, file, open_files, opened, out,
                   state, touched, vec_hash, hex>>

(***************************************************************************)
(* The environment: while the program runs, a path it has yet to look at   *)
(* may be created, removed, replaced or have its permissions changed.      *)
(* (Changes before the program starts are initial states; changes to a     *)
(* path the program will not look at again cannot be observed.)            *)
(***************************************************************************)
\* Argument k still has a look at the file system ahead of it: its
\* classification, or the File::open of a hashable entry.
LookPending(k) ==
    \/ state[k] = "unchecked"
    \/ state[k] = "classified" /\ checked_files[k].hashable.ok /\ k \notin opened

FsChange ==
    /\ pc \notin {"parse", "exit"}
    /\ \E p \in Paths, e \in Entries :
         /\ \E k \in DOMAIN state : args.filename[k] = p /\ LookPending(k)
         /\ fs[p] # e
         /\ fs' = [fs EXCEPT ![p] = e]
         /\ touched' = touched \cup {p}
    /\ UNCHANGED <<args, pc, checked_files, idx, file, open_files, opened, out,
                   exit_status, state, vec_hash, hex>>

Step ==
    \/ CliParse
    \/ Classify
    \/ CallHashFiles
    \/ ReportUnhashable
    \/ OpenFile
    \/ OpenFail
    \/ CopyOk
    \/ CopyFail
    \/ FinalizeAndPrint
    \/ Return

Next == Step \/ FsChange

Spec == Init /\ [][Next]_vars

\* The program is a single running thread: it is never suspended for ever.
FairSpec == Spec /\ WF_vars(Step)

(***************************************************************************)
(* The hex encoder on its own: any byte sequence in, one encoding step.    *)
(***************************************************************************)
InitHex ==
    /\ vec_hash \in SeqsUpTo(ByteSample, MaxHexLen) \cup [1..1 -> Byte]
    /\ hex = <<>>
    /\ pc = "hex"
    /\ args = [digest |-> "SHA256", info |-> "none", filename |-> <<>>]
    /\ fs = [p \in Paths |-> "missing"]
    /\ checked_files = <<>>
    /\ idx = 0
    /\ file = <<>>
    /\ open_files = {}
    /\ opened = {}
    /\ out = <<>>
    /\ exit_status = -1
    /\ state = <<>>
    /\ touched = {}

\* to_hex_lowercase(&vec_hash)
EncodeHex ==
    /\ pc = "hex"
    /\ hex' = to_hex_lowercase(vec_hash)
    /\ pc' = "hex_done"
    /\ UNCHANGED <<args, fs, checked_files, idx, file, open_files, opened, out,
                   exit_status, state, touched, vec_hash>>

NextHex == EncodeHex

SpecHex == InitHex /\ [][NextHex]_vars

(***************************************************************************)
(* Vocabulary of the properties.                                           *)
(***************************************************************************)
\* The argument parser accepted the command line.
Accepted == args.info = "none" /\ args.digest \in DigestType

\* The program, not the environment, takes the step.
ProgMoved == <<pc, idx, checked_files, out, exit_status, file>>' #
             <<pc, idx, checked_files, out, exit_status, file>>

HexChars == {"0", "1", "2", "3", "4", "5", "6", "7", "8", "9",
             "a", "b", "c", "d", "e", "f"}

IoErrors == {"No such file or directory", "Permission denied",
             "Input/output error", "Is a directory"}

\* "<hex-digest>: <path>"
IsDigestText(t, p) ==
    /\ Len(t) = 2 * OutputSize(args.digest) + 2
    /\ \A i \in 1..(Len(t) - 2) : t[i] \in HexChars
    /\ t[Len(t) - 1] = ": "
    /\ t[Len(t)] = p

\* "<path>: error during hashing: <message>"
IsHashErrorText(t, p) ==
    /\ Len(t) = 3
    /\ t[1] = p
    /\ t[2] = ": error during hashing: "
    /\ t[3] \in IoErrors

\* "<path>: <classification-reason>: unable to hash this file"
IsRejectionText(t, p) ==
    \/ t = <<p, ": is a directory, not a file", ": unable to hash this file">>
    \/ t = <<p, ": is not a directory or a file", ": unable to hash this file">>

IsReportFor(l, p) ==
    \/ l.stream = "stdout" /\ IsDigestText(l.text, p)
    \/ l.stream = "stdout" /\ IsHashErrorText(l.text, p)
    \/ l.stream = "stderr" /\ IsRejectionText(l.text, p)

\* Positions in the output of the lines that report on argument k.
LinesFor(k) == {i \in DOMAIN out : out[i].arg = k}

AllTerminal == \A k \in DOMAIN state : state[k] \in Terminal

(***************************************************************************)
(* C1: in an accepted invocation the lines emitted are report lines only,  *)
(* the i-th one reports on the i-th FILE argument, there are never more    *)
(* lines than arguments, and at exit there is exactly one per argument     *)
(* (none at all when there are no arguments).                              *)
(***************************************************************************)
C1_ReportOrder ==
    Accepted =>
        /\ Len(out) <= NArgs
        /\ \A i \in DOMAIN out :
             /\ out[i].arg = i
             /\ IsReportFor(out[i], args.filename[i])
        /\ pc = "exit" => Len(out) = NArgs

C1_Witness ==
    /\ Accepted
    /\ pc = "exit"
    /\ NArgs = 2
    /\ args.filename[1] # args.filename[2]
    /\ out[1].stream = "stderr"
    /\ out[2].stream = "stdout"

(***************************************************************************)
(* C2: each classification step records the path it was given, says        *)
(* hashable exactly when the path resolves (links followed) to a regular   *)
(* file, otherwise gives the directory reason for a directory and the      *)
(* other reason for everything else; the step never ends the program and   *)
(* opens nothing.                                                          *)
(***************************************************************************)
RegularFileEntries == {"file", "file_noperm", "file_ioerr", "link_file"}

DirectoryEntries == {"dir", "link_dir"}

C2_Classifier ==
    [][Len(checked_files') = Len(checked_files) + 1 =>
        LET k == Len(checked_files')
            p == args.filename[k]
            c == checked_files'[k]
        IN /\ c.file_path = p
           /\ c.hashable.ok <=> fs[p] \in RegularFileEntries
           /\ (~c.hashable.ok /\ fs[p] \in DirectoryEntries) =>
                 c.hashable.err = <<p, ": is a directory, not a file">>
           /\ (~c.hashable.ok /\ fs[p] \notin DirectoryEntries) =>
                 c.hashable.err = <<p, ": is not a directory or a file">>
           /\ exit_status' = -1
           /\ pc' = "collect"
           /\ opened' = {}
           /\ open_files' = {}
           /\ out' = out
    ]_vars

C2_Witness ==
    /\ Len(checked_files) = 2
    /\ checked_files[1].hashable.ok
    /\ fs[args.filename[1]] = "link_file"
    /\ ~checked_files[2].hashable.ok
    /\ fs[args.filename[2]] = "link_dangling"
    /\ touched = {}

(***************************************************************************)
(* C3: an argument classified not-hashable is never opened and gets        *)
(* nothing on standard output; once the loop is past it, it has exactly    *)
(* one line, on standard error, "<path>: <reason>: unable to hash this     *)
(* file"; and the loop runs on to the end of the argument list.            *)
(***************************************************************************)
C3_Rejection ==
    /\ \A k \in DOMAIN checked_files :
         ~checked_files[k].hashable.ok =>
            /\ k \notin opened
            /\ \A i \in LinesFor(k) : out[i].stream = "stderr"
            /\ (pc \in {"hash_files", "copy", "finalize", "exit"} /\ idx > k) =>
                  /\ Cardinality(LinesFor(k)) = 1
                  /\ \A i \in LinesFor(k) :
                       IsRejectionText(out[i].text, args.filename[k])
    /\ (pc = "exit" /\ Accepted) => idx = NArgs + 1

C3_Witness ==
    /\ pc = "exit"
    /\ Accepted
    /\ NArgs = 2
    /\ ~checked_files[1].hashable.ok
    /\ out[1].text = <<args.filename[1], ": is a directory, not a file",
                       ": unable to hash this file">>
    /\ state[2] = "hashed"

(***************************************************************************)
(* C4: when the open of a hashable argument fails, or the read of its open *)
(* file fails, that step prints exactly "<path>: error during hashing:     *)
(* <message>" on standard output, leaves no file open, does not end the    *)
(* program and moves the loop to the next argument; such an argument never *)
(* has a digest line; and the loop runs on to the end of the list.         *)
(***************************************************************************)
ErrorReported(msgs) ==
    /\ \E m \in msgs :
         out' = Append(out, [stream |-> "stdout", kind |-> "hash-error",
                             text |-> <<args.filename[idx], ": error during hashing: ", m>>,
                             arg |-> idx])
    /\ idx' = idx + 1
    /\ pc' = "hash_files"
    /\ open_files' = {}
    /\ exit_status' = -1

C4_HashingError ==
    /\ [][(/\ ProgMoved
           /\ pc = "hash_files"
           /\ idx <= Len(checked_files)
           /\ checked_files[idx].hashable.ok
           /\ Resolve(fs[args.filename[idx]]) \in {"missing", "file_noperm"})
          => ErrorReported({"No such file or directory", "Permission denied"})]_vars
    /\ [][(ProgMoved /\ pc = "copy" /\ pc' # "finalize")
          => ErrorReported({"Input/output error", "Is a directory"})]_vars
    /\ [][(ProgMoved /\ pc = "copy" /\ file[1] \in {"file_ioerr", "dir"})
          => pc' # "finalize"]_vars
    /\ [](\A k \in DOMAIN state :
            state[k] = "hash-failed" =>
               /\ Cardinality(LinesFor(k)) = 1
               /\ \A i \in LinesFor(k) :
                    /\ out[i].stream = "stdout"
                    /\ IsHashErrorText(out[i].text, args.filename[k]))
    /\ []((pc = "exit" /\ Accepted) => idx = NArgs + 1)

\* The file was removed after classification; the next argument is still hashed.
C4_Witness ==
    /\ pc = "exit"
    /\ Accepted
    /\ NArgs = 2
    /\ checked_files[1].hashable.ok
    /\ args.filename[1] \in touched
    /\ out[1].text = <<args.filename[1], ": error during hashing: ",
                       "No such file or directory">>
    /\ out[1].stream = "stdout"
    /\ state[2] = "hashed"

(***************************************************************************)
(* C5: each argument's lifecycle only moves unchecked -> classified ->      *)
(* one of skipped / hashed / hash-failed and never leaves those three; in   *)
(* an accepted invocation every argument eventually is in one of them; and  *)
(* at exit an argument whose path was a readable regular file (directly or  *)
(* through a link) all along has its digest line, wherever it stands.       *)
(***************************************************************************)
LifecycleStep(a, b) ==
    \/ a = b
    \/ a = "unchecked" /\ b = "classified"
    \/ a = "classified" /\ b \in Terminal

C5_Lifecycle ==
    /\ [][\A k \in DOMAIN state : LifecycleStep(state[k], state'[k])]_vars
    /\ (Accepted /\ pc = "parse") ~> (pc = "exit" /\ AllTerminal)
    /\ []((pc = "exit" /\ Accepted) =>
            \A k \in DOMAIN state :
               (/\ args.filename[k] \notin touched
                /\ fs[args.filename[k]] \in {"file", "link_file"})
               => /\ state[k] = "hashed"
                  /\ \E i \in LinesFor(k) :
                       /\ out[i].stream = "stdout"
                       /\ IsDigestText(out[i].text, args.filename[k]))

\* A regular file after a missing path and another before a directory.
C5_Witness ==
    /\ pc = "exit"
    /\ Accepted
    /\ NArgs = 2
    /\ touched = {}
    /\ state[1] = "skipped"
    /\ state[2] = "hashed"
    /\ fs[args.filename[1]] = "missing"

(***************************************************************************)
(* C6: to_hex_lowercase gives two characters per byte, the high nibble     *)
(* then the low nibble as lowercase hex digits, in input order and with    *)
(* nothing in between; 0x08 gives "08", [68, 201, 46] gives "44c92e", the  *)
(* empty sequence gives the empty string.                                  *)
(***************************************************************************)
C6_HexEncoding ==
    pc = "hex_done" =>
        /\ Len(hex) = 2 * Len(vec_hash)
        /\ \A i \in DOMAIN hex : hex[i] \in HexChars
        /\ \A i \in DOMAIN vec_hash :
             /\ hex[2 * i - 1] = HexDigits[(vec_hash[i] \div 16) + 1]
             /\ hex[2 * i] = HexDigits[(vec_hash[i] % 16) + 1]
        /\ vec_hash = <<8>> => hex = <<"0", "8">>
        /\ vec_hash = <<68, 201, 46>> => hex = <<"4", "4", "c", "9", "2", "e">>
        /\ vec_hash = <<>> => hex = <<>>

C6_Witness ==
    /\ pc = "hex_done"
    /\ vec_hash = <<68, 201, 46>>
    /\ hex = <<"4", "4", "c", "9", "2", "e">>

(***************************************************************************)
(* C7: an accepted invocation never has another exit status than 0, it can *)
(* always take a step until it has exited, and it does exit, whatever was  *)
(* rejected or failed on the way.                                          *)
(***************************************************************************)
C7_ExitZero ==
    /\ [](Accepted => exit_status \in {-1, 0})
    /\ []((Accepted /\ pc = "exit") => exit_status = 0)
    /\ (Accepted /\ pc = "parse") ~> (pc = "exit" /\ exit_status = 0)

\* Every argument was rejected or failed, and the status is still 0.
C7_Witness ==
    /\ Accepted
    /\ pc = "exit"
    /\ exit_status = 0
    /\ NArgs = 2
    /\ state[1] = "skipped"
    /\ state[2] = "hash-failed"

(***************************************************************************)
(* C8 as stated: with the selector absent or invalid the invocation ends   *)
(* with a non-zero status and nothing is classified, opened or reported.   *)
(***************************************************************************)
NothingProcessed ==
    /\ checked_files = <<>>
    /\ opened = {}
    /\ open_files = {}
    /\ \A k \in DOMAIN state : state[k] = "unchecked"
    /\ \A i \in DOMAIN out : out[i].arg = 0

C8_Original ==
    args.digest \notin DigestType =>
        /\ NothingProcessed
        /\ pc = "exit" => exit_status # 0

(***************************************************************************)
(* C8 amended: with the selector absent or invalid nothing is classified,  *)
(* opened or reported; the exit status is non-zero unless the parser met a *)
(* help or version request first, in which case it is 0.                   *)
(***************************************************************************)
C8_Rejected ==
    args.digest \notin DigestType =>
        /\ NothingProcessed
        /\ pc \in {"parse", "exit"}
        /\ (pc = "exit" /\ args.info = "none") =>
              /\ exit_status # 0
              /\ Len(out) = 1 /\ out[1].stream = "stderr"
        /\ (pc = "exit" /\ args.info # "none") => exit_status = 0

C8_Witness ==
    /\ args.digest = "invalid"
    /\ args.info = "none"
    /\ NArgs = 2
    /\ fs[args.filename[1]] = "file"
    /\ pc = "exit"
    /\ exit_status = 2

(***************************************************************************)
(* C9 as stated: the classifier runs on a path only after the path before  *)
(* it has reached its terminal state.                                      *)
(***************************************************************************)
C9_Original ==
    \A k \in DOMAIN state :
        (k > 1 /\ state[k] # "unchecked") => state[k - 1] \in Terminal

(***************************************************************************)
(* C9 amended: the paths are classified in command-line order in a first   *)
(* pass, and only when all are classified are they skipped or hashed, one  *)
(* at a time in command-line order, each from the classification the first *)
(* pass recorded, which is never changed.                                  *)
(***************************************************************************)
C9_TwoPass ==
    /\ [](\A k \in DOMAIN state :
            /\ (k > 1 /\ state[k] # "unchecked") => state[k - 1] # "unchecked"
            /\ (k > 1 /\ (state[k] \in Terminal \/ k \in opened))
                  => state[k - 1] \in Terminal
            /\ (state[k] \in Terminal \/ k \in opened)
                  => \A j \in DOMAIN state : state[j] # "unchecked"
            /\ k \in DOMAIN checked_files
                  => checked_files[k].file_path = args.filename[k])
    /\ [](pc \in {"hash_files", "copy", "finalize"} => Len(checked_files) = NArgs)
    /\ [][\A k \in DOMAIN checked_files :
            /\ k \in DOMAIN checked_files'
            /\ checked_files'[k] = checked_files[k]]_vars
    /\ [][(ProgMoved /\ pc = "hash_files" /\ idx <= Len(checked_files)) =>
            /\ checked_files[idx].hashable.ok => idx \in opened'
            /\ ~checked_files[idx].hashable.ok => state'[idx] = "skipped"]_vars

\* The first path became a regular file after the first pass: it is still
\* about to be skipped, and the second path is classified already.
C9_Witness ==
    /\ pc = "hash_files"
    /\ NArgs = 2
    /\ idx = 1
    /\ state[2] = "classified"
    /\ ~checked_files[1].hashable.ok
    /\ fs[args.filename[1]] = "file"

(***************************************************************************)
(* C10: at most one file is open at any time, and it is the file of the    *)
(* argument being hashed; between arguments, and at exit, none is open.    *)
(***************************************************************************)
C10_OneOpenFile ==
    /\ Cardinality(open_files) <= 1
    /\ pc \in {"copy", "finalize"} => open_files = {idx}
    /\ pc \notin {"copy", "finalize"} => open_files = {}

\* The second file is open after the first was opened and failed mid-read.
C10_Witness ==
    /\ pc = "copy"
    /\ idx = 2
    /\ open_files = {2}
    /\ 1 \in opened
    /\ state[1] = "hash-failed"

====
